---- MODULE Spec2Model ----
(***************************************************************************)
(* A model of streetvoice_realtime_scrape.py: the count resolution of      *)
(* scrape_song_page / scrape_artist_profile, the deep scan fuzzy_find_int, *)
(* the section extractor section_text_by_h2, the chart parser scrape_chart *)
(* and the batch loop of main.                                             *)
(*                                                                         *)
(* Python values are modelled as follows.                                  *)
(*   str            a sequence of one-character strings                    *)
(*   int (>= 0)     its decimal digits, a non-empty sequence of digit      *)
(*                  characters without leading zeros (Python ints are      *)
(*                  unbounded, 10**10 does not fit a machine word)         *)
(*   None           the empty sequence, where an Optional[int] is expected *)
(*   a JSON value   a record tagged by its field t                         *)
(***************************************************************************)
EXTENDS Integers, Sequences, FiniteSets, TLC

VARIABLES
    pc,          \* position of the operation under study
    obj,         \* fuzzy_find_int: the structure scanned
    include,     \* fuzzy_find_int: patterns the key path must contain
    exclude,     \* fuzzy_find_int: patterns the key path must not contain
    fuzzy_ret,   \* fuzzy_find_int: the value returned
    song,        \* scrape_song_page: the source documents of the song
    song_out,    \* scrape_song_page: the counts of the dict returned
    artist,      \* scrape_artist_profile: the source documents of the artist
    artist_out,  \* scrape_artist_profile: the counts of the dict returned
    soup,        \* the parsed song page, its tags in document order
    h2_startswith, \* section_text_by_h2: the heading text looked for
    section_ret, \* section_text_by_h2: the lines of the text returned
    chart_doc,   \* scrape_chart: the song links of the chart page, in document order
    limit,       \* scrape_chart: the maximum count (--limit)
    chart_items, \* scrape_chart: the list returned
    page,        \* main: whether a Playwright page is available
    idx,         \* main: the position of the for loop in chart_items
    rows,        \* main: the rows collected
    written,     \* main: whether the CSV file was written
    critic_review_url, \* extract_critic_review_url: the URL returned
    fieldnames,  \* main: the header of the CSV file
    csv_rows, \* main: the dicts written to the CSV file
    max_tries,  \* request_with_retries: the number of attempts allowed
    tries,  \* request_with_retries: the loop variable i
    attempts,  \* request_with_retries: the outcomes of the requests made so far
    req_ret, \* request_with_retries: the value returned
    url,  \* is_blacklisted_social: the URL tested
    visited,  \* is_blacklisted_social: the blacklist entries the loop has passed
    results  \* the results of the runs completed on the same documents

fuzzyVars   == <<obj, include, exclude, fuzzy_ret>>
resolveVars == <<song, song_out, artist, artist_out>>
sectionVars == <<soup, h2_startswith, section_ret>>
chartVars   == <<chart_doc, limit, chart_items>>
mainVars    == <<page, idx, rows, written>>

criticVars == <<critic_review_url>>

csvVars == <<fieldnames, csv_rows>>

retryVars == <<max_tries, tries, attempts, req_ret>>

runVars == <<url, visited, results>>

vars == <<pc, fuzzyVars, resolveVars, sectionVars, chartVars, mainVars, criticVars, csvVars, retryVars, runVars>>

----------------------------------------------------------------------------
(* Bounds of the model *)

\* entries of the outer dict / list of a scanned structure
MaxItems == 2
\* entries of a dict / list nested in the outer one
MaxInner == 1
\* entries of an API payload or __NEXT_DATA__ blob handed to scrape_song_page
MaxPayload == 2
\* tags of a page handed to section_text_by_h2
MaxNodes == 4
\* song links of a chart page handed to scrape_chart
MaxAnchors == 3
\* the largest --limit
MaxLimit == 3
\* the largest song id on a chart page
MaxSongId == 2

----------------------------------------------------------------------------
(* Strings *)

\* the lower-case letter of each upper-case letter
ToLower ==
    [A |-> "a", B |-> "b", C |-> "c", D |-> "d", E |-> "e", F |-> "f", G |-> "g",
     H |-> "h", I |-> "i", J |-> "j", K |-> "k", L |-> "l", M |-> "m", N |-> "n",
     O |-> "o", P |-> "p", Q |-> "q", R |-> "r", S |-> "s", T |-> "t", U |-> "u",
     V |-> "v", W |-> "w", X |-> "x", Y |-> "y", Z |-> "z"]

UpperCase == DOMAIN ToLower

\* str.lower() on one character
LowerChar(c) == IF c \in UpperCase THEN ToLower[c] ELSE c

\* str.lower()
Lower(s) == [i \in 1..Len(s) |-> LowerChar(s[i])]

\* p in s   (substring test)
Contains(p, s) ==
    \/ Len(p) = 0
    \/ \E i \in 1..(Len(s) - Len(p) + 1) : SubSeq(s, i, i + Len(p) - 1) = p

\* s.startswith(p)
StartsWith(s, p) == Len(p) <= Len(s) /\ SubSeq(s, 1, Len(p)) = p

DigitChars == <<"0","1","2","3","4","5","6","7","8","9">>

DigitSet == {"0","1","2","3","4","5","6","7","8","9"}

IsDigit(c) == c \in DigitSet

\* str(idx) for a list index below 10
IdxStr(i) == <<DigitChars[i + 1]>>

----------------------------------------------------------------------------
(* Integers as digit sequences *)

None == <<>>
Zero == <<"0">>

DigitValues ==
    "0" :> 0 @@ "1" :> 1 @@ "2" :> 2 @@ "3" :> 3 @@ "4" :> 4 @@
    "5" :> 5 @@ "6" :> 6 @@ "7" :> 7 @@ "8" :> 8 @@ "9" :> 9

DigitVal(c) == DigitValues[c]

RECURSIVE StripZeros(_)
\* int("007") = 7: leading zeros carry no value
StripZeros(ds) ==
    IF Len(ds) > 1 /\ ds[1] = "0" THEN StripZeros(Tail(ds)) ELSE ds

RECURSIVE LexLess(_, _)
LexLess(a, b) ==
    IF a = <<>> THEN FALSE
    ELSE IF DigitVal(a[1]) # DigitVal(b[1]) THEN DigitVal(a[1]) < DigitVal(b[1])
    ELSE LexLess(Tail(a), Tail(b))

\* a < b on ints
IntLess(a, b) ==
    \/ Len(a) < Len(b)
    \/ Len(a) = Len(b) /\ LexLess(a, b)

\* Python truthiness of an Optional[int]: None and 0 are falsy
Truthy(v) == v # None /\ v # Zero

\* a or b, with a default of 0 when both are falsy and b is None
PyOrZero(a, b) == IF Truthy(a) THEN a ELSE IF b = None THEN Zero ELSE b

\* a or b
PyOr(a, b) == IF Truthy(a) THEN a ELSE b

\* the exponent of the range limit 10**10
RangeExp == 10

to_int(s) ==
    IF s = None THEN None
    ELSE LET s2 == SelectSeq(s, IsDigit)
         IN IF s2 # <<>> THEN StripZeros(s2) ELSE None

----------------------------------------------------------------------------
(* JSON values, as json.loads / resp.json() produce them *)

JInt(neg, mag)         == [t |-> "int", neg |-> neg, mag |-> mag]
\* a float: sign, integer part, and whether the fractional part is non-zero
JFloat(neg, mag, frac) == [t |-> "float", neg |-> neg, mag |-> mag, frac |-> frac]
JStr(s)                == [t |-> "str", s |-> s]
JBool(b)               == [t |-> "bool", b |-> b]
JNull                  == [t |-> "null"]
\* a dict keeps insertion order: a sequence of <<key, value>>
JDict(items)           == [t |-> "dict", items |-> items]
JList(items)           == [t |-> "list", items |-> items]

\* f"{path}.{k}" if path else str(k)
KeyPath(path, k) == IF path # <<>> THEN path \o <<".">> \o k ELSE k

\* f"{path}[{idx}]"
IdxPath(path, n) == path \o <<"[">> \o IdxStr(n) \o <<"]">>

RECURSIVE deep_iter_stack(_)
\* the while loop of deep_iter_dict: pop the last entry of the stack, push the
\* children of a dict or list, yield a leaf
deep_iter_stack(stack) ==
    IF stack = <<>> THEN <<>>
    ELSE LET top  == stack[Len(stack)]
             rest == SubSeq(stack, 1, Len(stack) - 1)
             path == top[1]
             cur  == top[2]
         IN IF cur.t = "dict"
            THEN deep_iter_stack(rest \o
                   [i \in 1..Len(cur.items) |->
                       <<KeyPath(path, cur.items[i][1]), cur.items[i][2]>>])
            ELSE IF cur.t = "list"
            THEN deep_iter_stack(rest \o
                   [i \in 1..Len(cur.items) |-> <<IdxPath(path, i - 1), cur.items[i]>>])
            ELSE <<top>> \o deep_iter_stack(rest)

\* the sequence of (keypath, value) pairs, in the order they are yielded
deep_iter_dict(o) == deep_iter_stack(<< <<<<>>, o>> >>)

\* value >= 0 and value < 10**10, for an int or a float
InRange(v) ==
    /\ (~v.neg \/ (v.mag = Zero /\ (v.t = "float" => ~v.frac)))
    /\ Len(v.mag) <= RangeExp

\* the candidates one yielded value adds to the list (none or one)
Candidate(value) ==
    IF value.t \in {"int", "float"}
    THEN IF InRange(value) THEN <<value.mag>> ELSE <<>>
    ELSE IF value.t = "str"
    THEN LET iv == to_int(value.s) IN IF iv # None THEN <<iv>> ELSE <<>>
    ELSE <<>>

\* whether the key path passes the exclude and include tests
KeyMatches(keypath, inc, exc) ==
    LET kp == Lower(keypath)
    IN /\ ~ \E i \in 1..Len(exc) : Contains(Lower(exc[i]), kp)
       /\ \A i \in 1..Len(inc) : Contains(Lower(inc[i]), kp)

RECURSIVE Candidates(_, _, _)
\* the list candidates built by the for loop of fuzzy_find_int
Candidates(pairs, inc, exc) ==
    IF pairs = <<>> THEN <<>>
    ELSE (IF KeyMatches(pairs[1][1], inc, exc) THEN Candidate(pairs[1][2]) ELSE <<>>)
         \o Candidates(Tail(pairs), inc, exc)

\* the first element of a non-empty list of ints
PyFirst(xs) == xs[1]

RECURSIVE PyMax(_)
\* max() of a non-empty list of ints
PyMax(xs) ==
    IF Len(xs) = 1 THEN xs[1]
    ELSE LET m == PyMax(Tail(xs)) IN IF IntLess(xs[1], m) THEN m ELSE xs[1]

fuzzy_find_int(o, inc, exc) ==
    LET candidates == Candidates(deep_iter_dict(o), inc, exc)
    IN IF candidates = <<>> THEN None ELSE PyMax(candidates)

----------------------------------------------------------------------------
(* Count resolution of a song: API payload, __NEXT_DATA__, markup, rendered text *)

s_like     == <<"l","i","k","e">>
s_favorite == <<"f","a","v","o","r","i","t","e">>
s_fav      == <<"f","a","v">>
s_comment  == <<"c","o","m","m","e","n","t">>
s_reply    == <<"r","e","p","l","y">>
s_dislike  == <<"d","i","s","l","i","k","e">>
s_play     == <<"p","l","a","y">>
s_display  == <<"d","i","s","p","l","a","y">>
s_listen   == <<"l","i","s","t","e","n">>
s_view     == <<"v","i","e","w">>
s_review   == <<"r","e","v","i","e","w">>

\* bool(x) of a JSON value, as in "if song_api:" and "and nextdata"
JTruthy(v) ==
    CASE v.t = "null"  -> FALSE
      [] v.t = "dict"  -> v.items # <<>>
      [] v.t = "list"  -> v.items # <<>>
      [] v.t = "str"   -> v.s # <<>>
      [] v.t = "bool"  -> v.b
      [] v.t = "int"   -> v.mag # Zero
      [] v.t = "float" -> v.mag # Zero \/ v.frac

\* the three-alias chain for likes over the API payload
ApiLikes(song_api) ==
    PyOr(fuzzy_find_int(song_api, <<s_like>>, <<s_comment, s_reply, s_dislike>>),
    PyOr(fuzzy_find_int(song_api, <<s_favorite>>, <<s_comment, s_reply>>),
         fuzzy_find_int(song_api, <<s_fav>>, <<s_comment, s_reply>>)))

\* the three-alias chain for plays, over the API payload or __NEXT_DATA__
PlaysChain(o) ==
    PyOr(fuzzy_find_int(o, <<s_play>>, <<s_display>>),
    PyOr(fuzzy_find_int(o, <<s_listen>>, <<>>),
         fuzzy_find_int(o, <<s_view>>, <<s_review>>)))

\* the two-alias chain for likes over __NEXT_DATA__
NextLikes(nextdata) ==
    PyOr(fuzzy_find_int(nextdata, <<s_like>>, <<s_comment, s_reply, s_dislike>>),
         fuzzy_find_int(nextdata, <<s_favorite>>, <<s_comment, s_reply>>))

\* returns <<likes, plays>>
parse_counts_from_api_or_nextdata(song_api, nextdata) ==
    LET likes1 == IF JTruthy(song_api) THEN ApiLikes(song_api) ELSE None
        plays1 == IF JTruthy(song_api) THEN PlaysChain(song_api) ELSE None
        likes2 == IF ~Truthy(likes1) /\ JTruthy(nextdata) THEN NextLikes(nextdata) ELSE likes1
        plays2 == IF ~Truthy(plays1) /\ JTruthy(nextdata) THEN PlaysChain(nextdata) ELSE plays1
    IN <<likes2, plays2>>

\* stat_after_label of scrape_song_page, given the string find_next returns
\* after the label (the empty string when label or string is missing)
stat_after_label(nxt) == IF nxt # <<>> THEN to_int(nxt) ELSE None

\* "if plays0 and plays0 > 0: plays = plays0"
KeepPositive(cur, v0) == IF Truthy(v0) /\ IntLess(Zero, v0) THEN v0 ELSE cur

\* whether int(m.group(1).replace(",", "")) raises ValueError: the captured
\* text holds commas only
PwIntRaises(tok) == tok # <<>> /\ SelectSeq(tok, LAMBDA c : c # ",") = <<>>

\* int(m.group(1).replace(",", "")) if m else None
PwInt(tok) ==
    IF tok = <<>> THEN None ELSE StripZeros(SelectSeq(tok, LAMBDA c : c # ","))

\* playwright_fetch_counts_song, given the text captured after each label in
\* the head of the page (the empty string when the pattern does not match)
playwright_fetch_counts_song(likes_tok, plays_tok) ==
    IF PwIntRaises(plays_tok) \/ PwIntRaises(likes_tok)
    THEN [raised |-> TRUE, likes |-> None, plays |-> None]
    ELSE [raised |-> FALSE, likes |-> PwInt(likes_tok), plays |-> PwInt(plays_tok)]

\* the API payload scrape_song_page works with
SongApi(d) == IF d.song_id # None THEN d.api ELSE JNull

\* step 2 of scrape_song_page: the markup (SSR) tier
AfterMarkup(d, lp) ==
    IF (lp[1] = None \/ lp[2] = None) /\ ~d.cookie_disabled
    THEN << KeepPositive(lp[1], stat_after_label(d.likes_nxt)),
            KeepPositive(lp[2], stat_after_label(d.plays_nxt)) >>
    ELSE lp

\* the rendered-text step with the rendered counts taken whenever there are any
AfterPlaywrightOverwrite(d, lp) ==
    IF (lp[1] = None \/ lp[2] = None) /\ d.pw_page
    THEN IF d.pw_raises THEN lp
         ELSE LET r == playwright_fetch_counts_song(d.pw_likes, d.pw_plays)
              IN IF r.raised THEN lp
                 ELSE << IF r.likes # None THEN r.likes ELSE lp[1],
                         IF r.plays # None THEN r.plays ELSE lp[2] >>
    ELSE lp

\* step 3 of scrape_song_page: the rendered-text (Playwright) tier
AfterPlaywright(d, lp) ==
    IF (lp[1] = None \/ lp[2] = None) /\ d.pw_page
    THEN IF d.pw_raises THEN lp
         ELSE LET r == playwright_fetch_counts_song(d.pw_likes, d.pw_plays)
              IN IF r.raised THEN lp
                 ELSE << IF lp[1] # None THEN lp[1] ELSE r.likes,
                         IF lp[2] # None THEN lp[2] ELSE r.plays >>
    ELSE lp

\* the likes_count and play_count of the dict scrape_song_page returns
scrape_song_page(d) ==
    IF ~d.html_ok
    THEN [likes_count |-> None, play_count |-> None]
    ELSE LET lp1 == parse_counts_from_api_or_nextdata(SongApi(d), d.nextdata)
             lp2 == AfterMarkup(d, lp1)
             lp3 == AfterPlaywright(d, lp2)
         IN [likes_count |-> lp3[1], play_count |-> lp3[2]]

----------------------------------------------------------------------------
(* Count resolution of an artist profile: markup, rendered text *)

\* stat_after of scrape_artist_profile, given the string find_next returns
\* after the label (the empty string when label or string is missing)
stat_after(nxt) == IF nxt # <<>> THEN to_int(nxt) ELSE None

\* playwright_fetch_counts_artist, given the text captured after each label
\* (the empty string when the pattern does not match): <<music, fans, following>>
playwright_fetch_counts_artist(music_tok, fans_tok, following_tok) ==
    << to_int(music_tok), to_int(fans_tok), to_int(following_tok) >>

\* the SSR step: all three counts are dropped when the page is cookie-disabled
\* and any of them is 0
ArtistMarkup(a) ==
    LET music0     == stat_after(a.music_nxt)
        fans0      == stat_after(a.fans_nxt)
        following0 == stat_after(a.following_nxt)
    IN IF ~(a.cookie_disabled /\ (music0 = Zero \/ fans0 = Zero \/ following0 = Zero))
       THEN <<music0, fans0, following0>>
       ELSE <<None, None, None>>

\* the Playwright fallback of scrape_artist_profile
ArtistPlaywright(a, c) ==
    IF (c[1] = None \/ c[2] = None \/ c[3] = None) /\ a.pw_page
    THEN IF a.pw_raises THEN c
         ELSE LET r == playwright_fetch_counts_artist(a.pw_music, a.pw_fans, a.pw_following)
              IN << IF c[1] # None THEN c[1] ELSE r[1],
                    IF c[2] # None THEN c[2] ELSE r[2],
                    IF c[3] # None THEN c[3] ELSE r[3] >>
    ELSE c

\* the three counts of the dict scrape_artist_profile returns
scrape_artist_profile(a) ==
    IF ~a.soup_ok
    THEN [artist_music_count |-> None, artist_fans_count |-> None,
          artist_following_count |-> None]
    ELSE LET c == ArtistPlaywright(a, ArtistMarkup(a))
         IN [artist_music_count |-> c[1], artist_fans_count |-> c[2],
             artist_following_count |-> c[3]]

----------------------------------------------------------------------------
(* Source documents the resolution is run on *)

s_likes == <<"l","i","k","e","s">>
s_plays == <<"p","l","a","y","s">>
s_views == <<"v","i","e","w","s">>

\* dicts of at most n entries, keys taken in the order of keyseq
DictsOver(keyseq, vals, n) ==
    { JDict([i \in 1..Len(ks) |-> <<keyseq[ks[i][1]], ks[i][2]>>]) :
        ks \in { q \in UNION { [1..m -> (1..Len(keyseq)) \X vals] : m \in 0..n } :
                    \A i \in 1..(Len(q) - 1) : q[i][1] < q[i + 1][1] } }

\* api_public_song returns None or the decoded JSON
ApiPayloads ==
    {JNull} \cup DictsOver(<<s_likes, s_plays>>,
                           {JInt(FALSE, Zero), JInt(FALSE, <<"3">>)}, MaxPayload)

\* extract_next_data_json returns None or the decoded JSON
NextPayloads ==
    {JNull} \cup DictsOver(<<s_likes, s_views>>,
                           {JInt(FALSE, Zero), JInt(FALSE, <<"5">>)}, MaxPayload)

\* the string found after a label in the markup
MarkupTexts == { <<>>, <<"0">>, <<"7">> }

\* the text the rendered-text patterns capture
RenderedToks == { <<>>, <<"9">>, <<",">> }

NoHtml ==
    [html_ok |-> FALSE, cookie_disabled |-> FALSE, nextdata |-> JNull,
     likes_nxt |-> <<>>, plays_nxt |-> <<>>]

\* get_html: None, or a page
HtmlDocs ==
    {NoHtml} \cup
    [html_ok : {TRUE}, cookie_disabled : BOOLEAN, nextdata : NextPayloads,
     likes_nxt : MarkupTexts, plays_nxt : MarkupTexts]

NoPage == [pw_page |-> FALSE, pw_raises |-> FALSE, pw_likes |-> <<>>, pw_plays |-> <<>>]

\* the Playwright page: none, one whose goto / inner_text raises, or a text
PwSongDocs ==
    {NoPage} \cup
    {[pw_page |-> TRUE, pw_raises |-> TRUE, pw_likes |-> <<>>, pw_plays |-> <<>>]} \cup
    [pw_page : {TRUE}, pw_raises : {FALSE}, pw_likes : RenderedToks, pw_plays : RenderedToks]

\* one record of all the documents of a song
SongDoc(id, api, h, pw) ==
    [song_id |-> id, api |-> api,
     html_ok |-> h.html_ok, cookie_disabled |-> h.cookie_disabled,
     nextdata |-> h.nextdata, likes_nxt |-> h.likes_nxt, plays_nxt |-> h.plays_nxt,
     pw_page |-> pw.pw_page, pw_raises |-> pw.pw_raises,
     pw_likes |-> pw.pw_likes, pw_plays |-> pw.pw_plays]

SongIds == { None, <<"4","2">> }

NoArtistPage ==
    [soup_ok |-> FALSE, cookie_disabled |-> FALSE,
     music_nxt |-> <<>>, fans_nxt |-> <<>>, following_nxt |-> <<>>]

ArtistTexts == { <<>>, <<"0">>, <<"1","2">> }

ArtistHtmlDocs ==
    {NoArtistPage} \cup
    [soup_ok : {TRUE}, cookie_disabled : BOOLEAN,
     music_nxt : ArtistTexts, fans_nxt : ArtistTexts, following_nxt : ArtistTexts]

NoArtistPw ==
    [pw_page |-> FALSE, pw_raises |-> FALSE,
     pw_music |-> <<>>, pw_fans |-> <<>>, pw_following |-> <<>>]

ArtistToks == { <<>>, <<"8">> }

PwArtistDocs ==
    {NoArtistPw} \cup
    {[pw_page |-> TRUE, pw_raises |-> TRUE,
      pw_music |-> <<>>, pw_fans |-> <<>>, pw_following |-> <<>>]} \cup
    [pw_page : {TRUE}, pw_raises : {FALSE},
     pw_music : ArtistToks, pw_fans : ArtistToks, pw_following : ArtistToks]

ArtistDoc(h, pw) ==
    [soup_ok |-> h.soup_ok, cookie_disabled |-> h.cookie_disabled,
     music_nxt |-> h.music_nxt, fans_nxt |-> h.fans_nxt,
     following_nxt |-> h.following_nxt,
     pw_page |-> pw.pw_page, pw_raises |-> pw.pw_raises,
     pw_music |-> pw.pw_music, pw_fans |-> pw.pw_fans,
     pw_following |-> pw.pw_following]

NoSong == SongDoc(None, JNull, NoHtml, NoPage)
NoSongOut == [likes_count |-> None, play_count |-> None]
NoArtist == ArtistDoc(NoArtistPage, NoArtistPw)
NoArtistOut ==
    [artist_music_count |-> None, artist_fans_count |-> None,
     artist_following_count |-> None]

----------------------------------------------------------------------------
(* The resolution of one song and of one artist, on every document set *)

\* the variables of the operations a specification does not exercise
IdleFuzzy   == obj = JNull /\ include = <<>> /\ exclude = <<>> /\ fuzzy_ret = None
IdleResolve ==
    /\ song = NoSong /\ song_out = NoSongOut
    /\ artist = NoArtist /\ artist_out = NoArtistOut
IdleSection == soup = <<>> /\ h2_startswith = <<>> /\ section_ret = None
IdleChart   == chart_doc = <<>> /\ limit = 0 /\ chart_items = <<>>
IdleMain    == page = FALSE /\ idx = 0 /\ rows = <<>> /\ written = FALSE
IdleCritic == critic_review_url = None
IdleCsv == fieldnames = <<>> /\ csv_rows = <<>>
IdleRetry == max_tries = 0 /\ tries = 0 /\ attempts = <<>> /\ req_ret = None
IdleRuns == url = <<>> /\ visited = {} /\ results = <<>>

InitResolve ==
    /\ pc = "idle"
    /\ song = NoSong /\ song_out = NoSongOut
    /\ artist = NoArtist /\ artist_out = NoArtistOut
    /\ IdleFuzzy /\ IdleSection /\ IdleChart /\ IdleMain /\ IdleCritic /\ IdleCsv /\ IdleRetry /\ IdleRuns

ScrapeSongPage ==
    /\ pc = "idle"
    /\ \E id \in SongIds, api \in ApiPayloads, h \in HtmlDocs, pw \in PwSongDocs :
          /\ song' = SongDoc(id, api, h, pw)
          /\ song_out' = scrape_song_page(SongDoc(id, api, h, pw))
    /\ pc' = "song"
    /\ UNCHANGED <<artist, artist_out, fuzzyVars, sectionVars, chartVars, mainVars, criticVars, csvVars, retryVars, runVars>>

ScrapeArtistProfile ==
    /\ pc = "idle"
    /\ \E h \in ArtistHtmlDocs, pw \in PwArtistDocs :
          /\ artist' = ArtistDoc(h, pw)
          /\ artist_out' = scrape_artist_profile(ArtistDoc(h, pw))
    /\ pc' = "artist"
    /\ UNCHANGED <<song, song_out, fuzzyVars, sectionVars, chartVars, mainVars, criticVars, csvVars, retryVars, runVars>>

NextResolve == ScrapeSongPage \/ ScrapeArtistProfile

SpecResolve == InitResolve /\ [][NextResolve]_vars

----------------------------------------------------------------------------
(* What each tier offers for a count field, read off its document *)

\* the tiers of a song count, highest priority first
T_api      == 1
T_nextdata == 2
T_markup   == 3
T_rendered == 4
SongTiers  == T_api..T_rendered

SongFields == {"likes_count", "play_count"}

RECURSIVE FirstSome(_)
\* the first element that is not None
FirstSome(xs) ==
    IF xs = <<>> THEN None
    ELSE IF xs[1] # None THEN xs[1] ELSE FirstSome(Tail(xs))

\* the (include, exclude) aliases probed for a field in a structured document
Aliases(tier, f) ==
    IF f = "likes_count"
    THEN << <<<<s_like>>, <<s_comment, s_reply, s_dislike>>>>,
            <<<<s_favorite>>, <<s_comment, s_reply>>>> >>
         \o (IF tier = T_api THEN << <<<<s_fav>>, <<s_comment, s_reply>>>> >> ELSE <<>>)
    ELSE << <<<<s_play>>, <<s_display>>>>,
            <<<<s_listen>>, <<>>>>,
            <<<<s_view>>, <<s_review>>>> >>

\* the candidate a structured document offers: its first alias with a value
StructOffer(doc, tier, f) ==
    LET al == Aliases(tier, f)
    IN FirstSome([i \in 1..Len(al) |-> fuzzy_find_int(doc, al[i][1], al[i][2])])

\* whether the rendered text was obtained and parsed
RenderedOk(d) ==
    d.pw_page /\ ~d.pw_raises /\ ~PwIntRaises(d.pw_likes) /\ ~PwIntRaises(d.pw_plays)

\* the candidate value tier offers for field f (None: nothing)
SongOffer(d, tier, f) ==
    CASE tier = T_api      -> StructOffer(SongApi(d), T_api, f)
      [] tier = T_nextdata -> IF d.html_ok THEN StructOffer(d.nextdata, T_nextdata, f)
                              ELSE None
      [] tier = T_markup   -> IF d.html_ok
                              THEN to_int(IF f = "likes_count" THEN d.likes_nxt
                                          ELSE d.plays_nxt)
                              ELSE None
      [] tier = T_rendered -> IF RenderedOk(d)
                              THEN PwInt(IF f = "likes_count" THEN d.pw_likes
                                         ELSE d.pw_plays)
                              ELSE None

\* the tiers read from the page, whose zeros are placeholders when the page
\* is in the cookie-disabled state
Degraded(d, tier) == tier \in {T_nextdata, T_markup} /\ d.cookie_disabled

\* the tiers of an artist count
A_markup   == 1
A_rendered == 2
ArtistTiers == A_markup..A_rendered

ArtistFields == {"artist_music_count", "artist_fans_count", "artist_following_count"}

ArtistNxt(a, f) ==
    CASE f = "artist_music_count"     -> a.music_nxt
      [] f = "artist_fans_count"      -> a.fans_nxt
      [] f = "artist_following_count" -> a.following_nxt

ArtistTok(a, f) ==
    CASE f = "artist_music_count"     -> a.pw_music
      [] f = "artist_fans_count"      -> a.pw_fans
      [] f = "artist_following_count" -> a.pw_following

ArtistOffer(a, tier, f) ==
    CASE tier = A_markup   -> IF a.soup_ok THEN to_int(ArtistNxt(a, f)) ELSE None
      [] tier = A_rendered -> IF a.soup_ok /\ a.pw_page /\ ~a.pw_raises
                              THEN to_int(ArtistTok(a, f)) ELSE None

ArtistDegraded(a, tier) == tier = A_markup /\ a.cookie_disabled

----------------------------------------------------------------------------
(* C1..C9 *)

\* C1: tier precedence for the song counts: whenever the page was obtained and
\* a higher and a lower tier both offer positive, differing values for a field,
\* the resolved value is the higher tier's.
C1_TierPrecedence ==
    pc = "song" /\ song.html_ok =>
        \A f \in SongFields : \A hi \in SongTiers, lo \in SongTiers :
            ( /\ hi < lo
              /\ Truthy(SongOffer(song, hi, f)) /\ Truthy(SongOffer(song, lo, f))
              /\ SongOffer(song, hi, f) # SongOffer(song, lo, f) )
            => song_out[f] = SongOffer(song, hi, f)

\* the zero of tier is ambiguous, and nothing above it offers a value
SongAmbiguousZero(d, tier, f) ==
    /\ d.html_ok /\ Degraded(d, tier)
    /\ SongOffer(d, tier, f) = Zero
    /\ \A hi \in SongTiers : hi < tier => SongOffer(d, hi, f) = None

ArtistAmbiguousZero(a, f) ==
    a.soup_ok /\ a.cookie_disabled /\ ArtistOffer(a, A_markup, f) = Zero

\* C2: a zero read from a cookie-disabled page (its state blob or its markup)
\* is never the resolved value when a lower tier offers a positive value, and
\* the field resolves to None when no tier offers anything else.
C2_AmbiguousZero ==
    /\ pc = "song" =>
         \A f \in SongFields : \A t \in SongTiers :
            SongAmbiguousZero(song, t, f) =>
              /\ (\E lo \in SongTiers : lo > t /\ Truthy(SongOffer(song, lo, f)))
                    => song_out[f] # Zero
              /\ (\A o \in SongTiers : ~Truthy(SongOffer(song, o, f))
                                       /\ (SongOffer(song, o, f) = Zero => Degraded(song, o)))
                    => song_out[f] = None
    /\ pc = "artist" =>
         \A f \in ArtistFields :
            ArtistAmbiguousZero(artist, f) =>
              /\ Truthy(ArtistOffer(artist, A_rendered, f)) => artist_out[f] # Zero
              /\ ArtistOffer(artist, A_rendered, f) = None => artist_out[f] = None

\* every document of the song was obtained
SongAllPresent(d) ==
    d.html_ok /\ SongApi(d) # JNull /\ d.nextdata # JNull /\ RenderedOk(d)

ArtistAllPresent(a) == a.soup_ok /\ a.pw_page /\ ~a.pw_raises

\* C6: when exactly one tier has a value for a field, a positive one, and
\* every other tier is present but offers nothing for it, the field resolves to
\* that value, whatever the other fields of the document hold.
C6_SingleValidTier ==
    /\ pc = "song" /\ SongAllPresent(song) =>
         \A f \in SongFields : \A t \in SongTiers :
            ( /\ Truthy(SongOffer(song, t, f))
              /\ \A o \in SongTiers : o # t => SongOffer(song, o, f) = None )
            => song_out[f] = SongOffer(song, t, f)
    /\ pc = "artist" /\ ArtistAllPresent(artist) =>
         \A f \in ArtistFields : \A t \in ArtistTiers :
            ( /\ Truthy(ArtistOffer(artist, t, f))
              /\ \A o \in ArtistTiers : o # t => ArtistOffer(artist, o, f) = None )
            => artist_out[f] = ArtistOffer(artist, t, f)

\* C7: a document that could not be obtained contributes nothing and the
\* remaining tiers are still consulted: without the page, the API payload and
\* then the rendered text decide; without the API payload, the state blob does.
C7_MissingSourceFallThrough ==
    pc = "song" =>
        \A f \in SongFields :
           /\ (~song.html_ok /\ Truthy(SongOffer(song, T_api, f)))
                 => song_out[f] = SongOffer(song, T_api, f)
           /\ (~song.html_ok /\ SongOffer(song, T_api, f) = None
                             /\ SongOffer(song, T_rendered, f) # None)
                 => song_out[f] = SongOffer(song, T_rendered, f)
           /\ (song.html_ok /\ SongApi(song) = JNull
                            /\ Truthy(SongOffer(song, T_nextdata, f)))
                 => song_out[f] # None
           /\ (song.html_ok /\ ~song.pw_page /\ Truthy(SongOffer(song, T_api, f)))
                 => song_out[f] # None

\* the aliases of a field match a leaf of the structured document that
\* passes coercion; with zero: the leaf coerces to 0
StructHasCandidate(doc, tier, f, zero) ==
    LET al    == Aliases(tier, f)
        pairs == deep_iter_dict(doc)
    IN \E i \in 1..Len(al) : \E k \in 1..Len(pairs) :
          /\ KeyMatches(pairs[k][1], al[i][1], al[i][2])
          /\ Candidate(pairs[k][2]) # <<>>
          /\ zero => Candidate(pairs[k][2]) = <<Zero>>

\* some document of the song holds a candidate (a zero candidate) for f
SongHasCandidate(d, f, zero) ==
    \/ StructHasCandidate(SongApi(d), T_api, f, zero)
    \/ d.html_ok /\ StructHasCandidate(d.nextdata, T_nextdata, f, zero)
    \/ d.html_ok /\ SongOffer(d, T_markup, f) # None
                 /\ (zero => SongOffer(d, T_markup, f) = Zero)
    \/ SongOffer(d, T_rendered, f) # None
                 /\ (zero => SongOffer(d, T_rendered, f) = Zero)

ArtistHasCandidate(a, f, zero) ==
    \E t \in ArtistTiers :
        ArtistOffer(a, t, f) # None /\ (zero => ArtistOffer(a, t, f) = Zero)

\* C8: a count no document offers a candidate for resolves to None, and a
\* resolved 0 is a zero some document holds for that field.
C8_ExhaustedTiersAbsent ==
    /\ pc = "song" =>
         \A f \in SongFields :
            /\ ~SongHasCandidate(song, f, FALSE) => song_out[f] = None
            /\ song_out[f] = Zero => SongHasCandidate(song, f, TRUE)
    /\ pc = "artist" =>
         \A f \in ArtistFields :
            /\ ~ArtistHasCandidate(artist, f, FALSE) => artist_out[f] = None
            /\ artist_out[f] = Zero => ArtistHasCandidate(artist, f, TRUE)

\* a state where every document of a song was obtained, none offers a
\* candidate for likes, and likes resolved to None
C8_Witness ==
    /\ pc = "song" /\ SongAllPresent(song)
    /\ ~SongHasCandidate(song, "likes_count", FALSE)
    /\ SongHasCandidate(song, "play_count", TRUE)
    /\ song_out.likes_count = None /\ song_out.play_count = Zero

\* C9: a zero offered by the highest tier that offers anything, from a
\* document that is not cookie-disabled, is the resolved value.
C9_GenuineZero ==
    /\ pc = "song" /\ song.html_ok =>
         \A f \in SongFields : \A t \in SongTiers :
            ( /\ SongOffer(song, t, f) = Zero /\ ~Degraded(song, t)
              /\ \A hi \in SongTiers : hi < t => SongOffer(song, hi, f) = None )
            => song_out[f] = Zero
    /\ pc = "artist" /\ artist.soup_ok =>
         \A f \in ArtistFields : \A t \in ArtistTiers :
            ( /\ ArtistOffer(artist, t, f) = Zero /\ ~ArtistDegraded(artist, t)
              /\ \A hi \in ArtistTiers : hi < t => ArtistOffer(artist, hi, f) = None )
            => artist_out[f] = Zero

\* the likes and plays of a song before the rendered-text step
SongBeforeRendered(d) ==
    AfterMarkup(d, parse_counts_from_api_or_nextdata(SongApi(d), d.nextdata))

\* whether the rendered-text attempt for a song raises: the fetch, or the
\* conversion of a captured text
SongRenderedRaises(d) ==
    d.pw_raises \/ playwright_fetch_counts_song(d.pw_likes, d.pw_plays).raised

\* C19: the rendered-text step of scrape_song_page and scrape_artist_profile
\* changes nothing when every count is already resolved, when there is no
\* page object, or when the attempt raises; otherwise it leaves every count
\* that is not None as it was.
C19_RenderedNonDestructive ==
    /\ (pc = "song" /\ song.html_ok) =>
          LET b   == SongBeforeRendered(song)
              out == <<song_out.likes_count, song_out.play_count>>
          IN /\ \A k \in 1..2 : b[k] # None => out[k] = b[k]
             /\ ((\A k \in 1..2 : b[k] # None) \/ ~song.pw_page
                    \/ SongRenderedRaises(song)) => out = b
    /\ (pc = "artist" /\ artist.soup_ok) =>
          LET b   == ArtistMarkup(artist)
              out == <<artist_out.artist_music_count, artist_out.artist_fans_count,
                       artist_out.artist_following_count>>
          IN /\ \A k \in 1..3 : b[k] # None => out[k] = b[k]
             /\ ((\A k \in 1..3 : b[k] # None) \/ ~artist.pw_page
                    \/ artist.pw_raises) => out = b

\* a song whose plays were resolved before the rendered-text step, whose
\* rendered text offers other plays and likes, and whose likes were filled
\* from the rendered text
C19_Witness ==
    /\ pc = "song" /\ song.html_ok /\ song.pw_page /\ ~SongRenderedRaises(song)
    /\ SongBeforeRendered(song)[1] = None
    /\ SongBeforeRendered(song)[2] # None
    /\ PwInt(song.pw_plays) # None
    /\ PwInt(song.pw_plays) # SongBeforeRendered(song)[2]
    /\ song_out.likes_count = PwInt(song.pw_likes)
    /\ song_out.likes_count # None
    /\ song_out.play_count = SongBeforeRendered(song)[2]

----------------------------------------------------------------------------
(* fuzzy_find_int on every structure within the bounds *)

s_Likes == <<"L","i","k","e","s">>

ScanKeys == { s_like, s_dislike, s_Likes }

\* 10**10 and 2 * 10**10
TenPow10   == <<"1","0","0","0","0","0","0","0","0","0","0">>
TwoTenPow10 == <<"2","0","0","0","0","0","0","0","0","0","0">>

ScanLeaves ==
    { JInt(FALSE, Zero), JInt(FALSE, <<"7">>), JInt(TRUE, <<"5">>),
      JInt(FALSE, TenPow10), JFloat(FALSE, <<"3">>, TRUE),
      JStr(<<"1", ",", "2">>), JStr(<<"-", "5">>), JStr(TwoTenPow10),
      JBool(TRUE) }

\* dicts of 1..n entries with distinct keys, in every insertion order
ScanDicts(vals, n) ==
    { JDict(items) :
        items \in { q \in UNION { [1..m -> ScanKeys \X vals] : m \in 1..n } :
                       \A i \in 1..Len(q) : \A j \in 1..Len(q) :
                           i # j => q[i][1] # q[j][1] } }

ScanLists(vals, n) ==
    { JList(items) : items \in UNION { [1..m -> vals] : m \in 1..n } }

\* the values of the outer dict: leaves, and dicts and lists of leaves
ScanInner ==
    ScanLeaves \cup ScanDicts(ScanLeaves, MaxInner) \cup ScanLists(ScanLeaves, MaxInner)

ScanObjs == ScanDicts(ScanInner, MaxItems)

\* <<include, exclude>> as the callers pass them
ScanPatterns ==
    { << <<s_like>>, <<s_comment, s_reply, s_dislike>> >>,
      << <<s_like>>, <<>> >>,
      << <<s_like, s_dislike>>, <<s_reply>> >> }

InitFuzzy ==
    /\ pc = "fuzzy_call"
    /\ obj \in ScanObjs
    /\ \E p \in ScanPatterns : include = p[1] /\ exclude = p[2]
    /\ fuzzy_ret = None
    /\ IdleResolve /\ IdleSection /\ IdleChart /\ IdleMain /\ IdleCritic /\ IdleCsv /\ IdleRetry /\ IdleRuns

FuzzyFindInt ==
    /\ pc = "fuzzy_call"
    /\ fuzzy_ret' = fuzzy_find_int(obj, include, exclude)
    /\ pc' = "fuzzy_done"
    /\ UNCHANGED <<obj, include, exclude, resolveVars, sectionVars, chartVars, mainVars, criticVars, csvVars, retryVars, runVars>>

NextFuzzy == FuzzyFindInt

SpecFuzzy == InitFuzzy /\ [][NextFuzzy]_vars

\* v <= 10**10
AtMostTenPow10(v) == Len(v) <= RangeExp \/ v = TenPow10

\* the value of a leaf after coercion, when the claim keeps it: not negative
\* and at most 10**10, as a number or as a numeric string
KeptValue(value) ==
    IF value.t \in {"int", "float"}
    THEN IF (~value.neg \/ (value.mag = Zero /\ (value.t = "float" => ~value.frac)))
            /\ AtMostTenPow10(value.mag)
         THEN <<value.mag>> ELSE <<>>
    ELSE IF value.t = "str"
    THEN IF to_int(value.s) # None /\ ~Contains(<<"-">>, value.s)
            /\ AtMostTenPow10(to_int(value.s))
         THEN <<to_int(value.s)>> ELSE <<>>
    ELSE <<>>

RECURSIVE KeptCandidates(_, _, _)
KeptCandidates(pairs, inc, exc) ==
    IF pairs = <<>> THEN <<>>
    ELSE (IF KeyMatches(pairs[1][1], inc, exc) THEN KeptValue(pairs[1][2]) ELSE <<>>)
         \o KeptCandidates(Tail(pairs), inc, exc)

\* C10: the result of fuzzy_find_int is None or the maximum of the candidates
\* under a matching key path, negative candidates and candidates above 10^10
\* discarded, numbers and numeric strings alike: it lies in 0..10^10.
C10_CandidateValidation ==
    pc = "fuzzy_done" =>
        LET kept == KeptCandidates(deep_iter_dict(obj), include, exclude)
        IN /\ fuzzy_ret # None => AtMostTenPow10(fuzzy_ret)
           /\ fuzzy_ret = (IF kept = <<>> THEN None ELSE PyMax(kept))

----------------------------------------------------------------------------
(* Section extraction over a parsed page *)

(* A page is the sequence of its tags in document order.  A tag is a record
   [name, text, depth]: text is the string the tag itself holds (one symbol
   per character), depth its nesting depth; the tags nested in tag i are the
   tags that follow it while their depth is larger. *)

\* the characters of the section headings: 介紹, 歌詞, 留言（
s_intro   == <<"jie", "shao">>
s_lyrics  == <<"ge", "ci">>
s_comment_label == <<"liu", "yan", "(">>

\* whether tag j is nested in tag i
Inside(doc, i, j) ==
    j > i /\ \A k \in (i + 1)..j : doc[k].depth > doc[i].depth

RECURSIVE JoinFrom(_, _, _, _)
\* the strings of tag i and of the tags nested in it, from tag k on, joined by sep
JoinFrom(doc, i, k, sep) ==
    IF k > Len(doc) \/ (k > i /\ ~Inside(doc, i, k)) THEN <<>>
    ELSE LET rest == JoinFrom(doc, i, k + 1, sep)
         IN IF doc[k].text = <<>> THEN rest
            ELSE IF rest = <<>> THEN doc[k].text
            ELSE doc[k].text \o sep \o rest

\* tag.get_text(strip=True)
GetText(doc, i) == JoinFrom(doc, i, i, <<>>)

\* tag.get_text(" ", strip=True)
GetTextSp(doc, i) == JoinFrom(doc, i, i, <<" ">>)

\* a == b on tags: same name and same contents
TagEq(doc, i, j) ==
    /\ doc[i].name = doc[j].name
    /\ \A k \in 0..(Len(doc) - j) :
          /\ Inside(doc, i, i + k) <=> Inside(doc, j, j + k)
          /\ (k = 0 \/ Inside(doc, i, i + k)) =>
                /\ doc[i + k].name = doc[j + k].name
                /\ doc[i + k].text = doc[j + k].text
                /\ doc[i + k].depth - doc[i].depth = doc[j + k].depth - doc[j].depth

\* the index of the first h2 whose text starts with the marker, 0 when none
FindH2(doc, marker) ==
    LET hits == { i \in 1..Len(doc) :
                    doc[i].name = "h2" /\ StartsWith(GetText(doc, i), marker) }
    IN IF hits = {} THEN 0 ELSE CHOOSE i \in hits : \A j \in hits : i <= j

RECURSIVE SectionLoop(_, _, _)
\* the for loop over h2.find_all_next(): the indices of the tags whose text is
\* appended to parts, from tag k on
SectionLoop(doc, h2, k) ==
    IF k > Len(doc) THEN <<>>
    ELSE IF TagEq(doc, h2, k) THEN SectionLoop(doc, h2, k + 1)
    ELSE IF doc[k].name = "h2" THEN <<>>
    ELSE IF doc[k].name \in {"h1", "h2"} /\ Contains(s_comment_label, GetText(doc, k))
    THEN <<>>
    ELSE (IF GetTextSp(doc, k) # <<>> THEN <<k>> ELSE <<>>)
         \o SectionLoop(doc, h2, k + 1)

\* the tags section_text_by_h2 takes its lines from
SectionNodes(doc, marker) ==
    LET h2 == FindH2(doc, marker)
    IN IF h2 = 0 THEN <<>> ELSE SectionLoop(doc, h2, h2 + 1)

\* the lines of the text returned; None when the heading is missing or no line
\* was collected
section_text_by_h2(doc, marker) ==
    LET nodes == SectionNodes(doc, marker)
    IN [i \in 1..Len(nodes) |-> GetTextSp(doc, nodes[i])]

\* the heading parse_comments_count reads the comment count from
IsCommentHeading(doc, i) ==
    /\ doc[i].name \in {"h1", "h2", "h3"}
    /\ StartsWith(GetText(doc, i), s_comment_label)

\* the tags a page is built from
PageTags ==
    { [name |-> "h2", text |-> s_intro],
      [name |-> "h2", text |-> s_lyrics],
      [name |-> "h1", text |-> s_comment_label \o <<"3", ")">>],
      [name |-> "h2", text |-> s_comment_label \o <<"3", ")">>],
      [name |-> "h3", text |-> s_comment_label \o <<"3", ")">>],
      [name |-> "p",  text |-> <<"a">>],
      [name |-> "p",  text |-> <<"b">>],
      [name |-> "div", text |-> <<>>] }

\* the depths the tag that follows doc may have: down to 0, or one level
\* deeper when it follows a div
NextDepths(doc) ==
    IF doc = <<>> THEN {0}
    ELSE 0..(doc[Len(doc)].depth + (IF doc[Len(doc)].name = "div" THEN 1 ELSE 0))

RECURSIVE PagesOf(_)
\* the well-nested pages of exactly n tags
PagesOf(n) ==
    IF n = 0 THEN { <<>> }
    ELSE UNION { { Append(doc, [name |-> t.name, text |-> t.text, depth |-> d]) :
                     t \in PageTags, d \in NextDepths(doc) } :
                 doc \in PagesOf(n - 1) }

Pages == UNION { PagesOf(n) : n \in 1..MaxNodes }

InitSection ==
    /\ pc = "section_call"
    /\ soup \in Pages
    /\ h2_startswith \in {s_intro, s_lyrics}
    /\ section_ret = None
    /\ IdleFuzzy /\ IdleResolve /\ IdleChart /\ IdleMain /\ IdleCritic /\ IdleCsv /\ IdleRetry /\ IdleRuns

SectionTextByH2 ==
    /\ pc = "section_call"
    /\ section_ret' = section_text_by_h2(soup, h2_startswith)
    /\ pc' = "section_done"
    /\ UNCHANGED <<soup, h2_startswith, fuzzyVars, resolveVars, chartVars, mainVars, criticVars, csvVars, retryVars, runVars>>

NextSection == SectionTextByH2

SpecSection == InitSection /\ [][NextSection]_vars

\* C3: the text section_text_by_h2 returns takes no line from a tag at or
\* after a comment heading that follows the section's own heading, whatever
\* the level (h1, h2, h3) of that comment heading.
C3_NoCommentLeak ==
    pc = "section_done" =>
        LET nodes == SectionNodes(soup, h2_startswith)
            h2    == FindH2(soup, h2_startswith)
        IN \A c \in 1..Len(soup) : (c > h2 /\ IsCommentHeading(soup, c)) =>
              \A i \in 1..Len(nodes) : nodes[i] < c

\* the first h2 after tag h2, Len(doc) + 1 when there is none
NextH2(doc, h2) ==
    LET later == { j \in (h2 + 1)..Len(doc) : doc[j].name = "h2" }
    IN IF later = {} THEN Len(doc) + 1
       ELSE CHOOSE j \in later : \A k \in later : j <= k

\* the tags whose own strings are part of the text taken from tag k
TextSources(doc, k) ==
    { j \in k..Len(doc) : (j = k \/ Inside(doc, k, j)) /\ doc[j].text # <<>> }

\* C11: without a heading matching the start marker section_text_by_h2 returns
\* None; with one, every string of the returned text comes from a tag after
\* the start heading and before the next h2 heading.
C11_BoundedSection ==
    pc = "section_done" =>
        LET h2    == FindH2(soup, h2_startswith)
            nodes == SectionNodes(soup, h2_startswith)
        IN /\ h2 = 0 => section_ret = None
           /\ h2 # 0 =>
                \A i \in 1..Len(nodes) : \A j \in TextSources(soup, nodes[i]) :
                    j > h2 /\ j < NextH2(soup, h2)

----------------------------------------------------------------------------
(* The critic review link of a song page *)

(* The page is a sequence of tags as above; a tag of this part also carries
   href, the value of its href attribute as a sequence of symbols, <<>> when
   the attribute is missing or empty. *)

\* tags of a page of this part
MaxTags == 3

\* 達人推薦
s_critic == <<"da", "ren", "tui", "jian">>

\* BASE
BASE == "https://streetvoice.com"

\* urljoin(BASE + "/", href): a path is put behind BASE, a full URL is kept
absolute_url(href) ==
    IF href # <<>> /\ Head(href) = "/" THEN <<BASE>> \o href ELSE href

RECURSIVE FullTextFrom(_, _)
\* the strings of the tags from tag k on, joined by a line break
FullTextFrom(doc, k) ==
    IF k > Len(doc) THEN <<>>
    ELSE LET rest == FullTextFrom(doc, k + 1)
         IN IF doc[k].text = <<>> THEN rest
            ELSE IF rest = <<>> THEN doc[k].text
            ELSE doc[k].text \o <<"\n">> \o rest

\* soup.get_text("\n", strip=True)
FullText(doc) == FullTextFrom(doc, 1)

\* the first tag of a set of tag indices, 0 when the set is empty
FirstOf(hits) == IF hits = {} THEN 0 ELSE CHOOSE i \in hits : \A j \in hits : i <= j

\* the first h2 / h3 whose text contains the marker
CriticHeader(doc) ==
    FirstOf({ i \in 1..Len(doc) : /\ doc[i].name \in {"h2", "h3"}
                                  /\ Contains(s_critic, GetText(doc, i)) })

\* header.find_next("a")
FindNextA(doc, h) == FirstOf({ j \in (h + 1)..Len(doc) : doc[j].name = "a" })

RECURSIVE StringOf(_, _)
\* tag.string: the string of a tag that holds one string and nothing else, or
\* the .string of its only child; None otherwise
StringOf(doc, i) ==
    LET kids == { j \in (i + 1)..Len(doc) :
                    Inside(doc, i, j) /\ doc[j].depth = doc[i].depth + 1 }
    IN IF kids = {} THEN doc[i].text
       ELSE IF doc[i].text = <<>> /\ Cardinality(kids) = 1
       THEN StringOf(doc, CHOOSE j \in kids : TRUE)
       ELSE None

\* soup.find("a", string=lambda s: isinstance(s, str) and "達人推薦" in s)
FindMarkerA(doc) ==
    FirstOf({ j \in 1..Len(doc) : /\ doc[j].name = "a"
                                  /\ Contains(s_critic, StringOf(doc, j)) })

\* link (a): the first link after the marker heading, None without one
HeaderLink(doc) ==
    LET h == CriticHeader(doc)
        a == IF h = 0 THEN 0 ELSE FindNextA(doc, h)
    IN IF a # 0 /\ doc[a].href # <<>> THEN absolute_url(doc[a].href) ELSE None

\* link (b): the first link whose own text contains the marker
MarkerLink(doc) ==
    LET a2 == FindMarkerA(doc)
    IN IF a2 # 0 /\ doc[a2].href # <<>> THEN absolute_url(doc[a2].href) ELSE None

\* extract_critic_review_url without the test of the full text
extract_critic_review_url_ungated(doc) ==
    IF HeaderLink(doc) # None THEN HeaderLink(doc) ELSE MarkerLink(doc)

extract_critic_review_url(doc) ==
    IF ~Contains(s_critic, FullText(doc)) THEN None
    ELSE IF HeaderLink(doc) # None THEN HeaderLink(doc)
    ELSE MarkerLink(doc)

\* the tags a page of this part is built from
CriticTags ==
    { [name |-> "h2", text |-> s_critic, href |-> <<>>],
      [name |-> "h2", text |-> <<"da", "ren">>, href |-> <<>>],
      [name |-> "h3", text |-> s_critic, href |-> <<>>],
      [name |-> "h4", text |-> s_critic, href |-> <<>>],
      [name |-> "p",  text |-> s_critic, href |-> <<>>],
      [name |-> "b",  text |-> <<"tui", "jian">>, href |-> <<>>],
      [name |-> "a",  text |-> s_critic, href |-> <<"/", "r">>],
      [name |-> "a",  text |-> s_critic, href |-> <<>>],
      [name |-> "a",  text |-> <<"x">>, href |-> <<"/", "s">>],
      [name |-> "a",  text |-> <<>>, href |-> <<"/", "t">>],
      [name |-> "a",  text |-> <<"x">>, href |-> <<"https://e", "/", "u">>] }

\* the depths the tag that follows doc may have: one level deeper when it
\* follows a heading or a link
CriticNextDepths(doc) ==
    IF doc = <<>> THEN {0}
    ELSE 0..(doc[Len(doc)].depth
               + (IF doc[Len(doc)].name \in {"h2", "h3", "a"} THEN 1 ELSE 0))

RECURSIVE CriticPagesOf(_)
CriticPagesOf(n) ==
    IF n = 0 THEN { <<>> }
    ELSE UNION { { Append(doc, [name |-> t.name, text |-> t.text,
                                href |-> t.href, depth |-> d]) :
                     t \in CriticTags, d \in CriticNextDepths(doc) } :
                 doc \in CriticPagesOf(n - 1) }

CriticPages == UNION { CriticPagesOf(n) : n \in 0..MaxTags }

InitCritic ==
    /\ pc = "critic_call"
    /\ soup \in CriticPages
    /\ h2_startswith = <<>> /\ section_ret = None
    /\ critic_review_url = None
    /\ IdleFuzzy /\ IdleResolve /\ IdleChart /\ IdleMain /\ IdleCsv /\ IdleRetry /\ IdleRuns

ExtractCriticReviewUrl ==
    /\ pc = "critic_call"
    /\ critic_review_url' = extract_critic_review_url(soup)
    /\ pc' = "critic_done"
    /\ UNCHANGED <<fuzzyVars, resolveVars, sectionVars, chartVars, mainVars, csvVars, retryVars, runVars>>

NextCritic == ExtractCriticReviewUrl

SpecCritic == InitCritic /\ [][NextCritic]_vars

\* C14: for a page whose full text does not contain the marker the URL
\* returned by extract_critic_review_url is None, whatever headings and links
\* the page holds; a URL is returned only for a page with the marker.
C14_MarkerGate ==
    pc = "critic_done" =>
        (~Contains(s_critic, FullText(soup)) => critic_review_url = None)

\* a page without the marker in its full text, although a heading reads as the
\* marker across a nested tag and a link with an href follows it
C14_Witness ==
    /\ pc = "critic_done"
    /\ ~Contains(s_critic, FullText(soup))
    /\ CriticHeader(soup) # 0
    /\ HeaderLink(soup) # None
    /\ critic_review_url = None

\* C15: with the marker on the page the URL is (a) the first link after the
\* marker heading; without (a), (b) the link whose own text contains the
\* marker; without (a) and (b), (c) a path built from the location of the
\* song, so that some URL is returned.
C15_FallbackChain ==
    (pc = "critic_done" /\ Contains(s_critic, FullText(soup))) =>
        IF HeaderLink(soup) # None THEN critic_review_url = HeaderLink(soup)
        ELSE IF MarkerLink(soup) # None THEN critic_review_url = MarkerLink(soup)
        ELSE critic_review_url # None

----------------------------------------------------------------------------
(* request_with_retries *)

(* An outcome of session.request is a record [exc, status]: exc when the call
   raised requests.RequestException, else the status code of the response.
   The value returned is None or <<status>>, the response of that status. *)

\* largest max_tries of a call
MaxTries == 3

\* the status codes after which the request is made again
RetryStatuses == {429, 500, 502, 503, 504}

Raised == [exc |-> TRUE, status |-> 0]

Outcomes == {Raised} \cup [exc : {FALSE}, status : RetryStatuses \cup {200, 403}]

\* the loop goes on after this outcome: a retryable status, or only the
\* server errors among them
ShouldRetryServerErrors(o) == o.exc \/ o.status \in {500, 502, 503, 504}

\* the loop goes on after this outcome
ShouldRetry(o) == o.exc \/ o.status \in RetryStatuses

InitRetry ==
    /\ pc = "retry_loop"
    /\ max_tries \in 0..MaxTries
    /\ tries = 0 /\ attempts = <<>> /\ req_ret = None
    /\ IdleFuzzy /\ IdleResolve /\ IdleSection /\ IdleChart /\ IdleMain /\ IdleRuns
    /\ IdleCritic /\ IdleCsv /\ IdleRuns

\* one pass of the for loop: the request, then sleep and continue, or return
RetryAttempt ==
    /\ pc = "retry_loop" /\ tries < max_tries
    /\ \E o \in Outcomes :
          /\ attempts' = Append(attempts, o)
          /\ IF ShouldRetry(o)
             THEN /\ tries' = tries + 1
                  /\ UNCHANGED <<pc, req_ret>>
             ELSE /\ req_ret' = <<o.status>>
                  /\ pc' = "retry_done"
                  /\ UNCHANGED tries
    /\ UNCHANGED <<max_tries, fuzzyVars, resolveVars, sectionVars, chartVars,
                   mainVars, criticVars, csvVars, runVars>>

\* the loop has run out: return None
RetryExhausted ==
    /\ pc = "retry_loop" /\ tries >= max_tries
    /\ req_ret' = None
    /\ pc' = "retry_done"
    /\ UNCHANGED <<max_tries, tries, attempts, fuzzyVars, resolveVars, sectionVars,
                   chartVars, mainVars, criticVars, csvVars, runVars>>

NextRetry == RetryAttempt \/ RetryExhausted

SpecRetry == InitRetry /\ [][NextRetry]_vars /\ WF_vars(NextRetry)

\* an attempt that raised or was answered with 429, 500, 502, 503 or 504
Failed(o) == o.exc \/ o.status \in {429, 500, 502, 503, 504}

\* C18: request_with_retries ends after at most max_tries attempts; no attempt
\* follows one that did not fail; the value returned is the response of the
\* first attempt that did not fail, and None exactly when all max_tries
\* attempts failed.
C18_BoundedRetry ==
    /\ [](/\ Len(attempts) <= max_tries
          /\ \A k \in 1..(Len(attempts) - 1) : Failed(attempts[k])
          /\ pc = "retry_done" =>
                /\ req_ret # None =>
                      /\ ~Failed(attempts[Len(attempts)])
                      /\ req_ret = <<attempts[Len(attempts)].status>>
                /\ req_ret = None <=>
                      /\ Len(attempts) = max_tries
                      /\ \A k \in 1..Len(attempts) : Failed(attempts[k]))
    /\ <>(pc = "retry_done")

\* a call that returned the response of its last allowed attempt after an
\* exception and a 429
C18_Witness ==
    /\ pc = "retry_done" /\ max_tries = 3 /\ Len(attempts) = 3
    /\ attempts[1].exc /\ attempts[2].status = 429
    /\ req_ret = <<200>>

----------------------------------------------------------------------------
(* Two runs on the same documents *)

(* Each run scans the same structure with fuzzy_find_int and tests the same
   URL with is_blacklisted_social.  What a run does not fix is chosen anew in
   each run: the order in which the dict hands out its entries, and the order
   in which the for loop receives the elements of the set
   SOCIAL_BLACKLIST_SUBSTR.  results collects <<blacklisted, count>> of each
   run. *)

(* SOCIAL_BLACKLIST_SUBSTR, one symbol per host name and per letter of a path:
   f facebook.com, m. the prefix m., i instagram.com, y youtube.com,
   SVT StreetVoiceTaiwan, sv streetvoice, sv_t streetvoice_taiwan,
   SVTV StreetVoiceTV, c/UC channel/UC *)
SOCIAL_BLACKLIST_SUBSTR ==
    { <<"f", "/", "S", "V", "T">>,
      <<"m", ".", "f", "/", "S", "V", "T">>,
      <<"i", "/", "s", "v">>,
      <<"i", "/", "s", "v", "_", "t">>,
      <<"y", "/", "S", "V", "T", "V">>,
      <<"y", "/", "@", "S", "V", "T", "V">>,
      <<"y", "/", "c", "/", "U", "C">> }

\* the URLs tested: none, blacklisted ones (in another case, matching two
\* entries), and ones of an artist
SocialUrls ==
    { <<>>,
      <<"f", "/", "s", "v", "t">>,
      <<"m", ".", "f", "/", "S", "V", "T">>,
      <<"i", "/", "s", "v", "_", "t">>,
      <<"f", "/", "b", "a", "n", "d">>,
      <<"y", "/", "c", "/", "U", "C", "x">> }

\* bad.lower() in url.lower()
BlacklistHit(bad, u) == Contains(Lower(bad), Lower(u))

\* the structures scanned: flat dicts of counts
RunLeaves == { JInt(FALSE, Zero), JInt(FALSE, <<"7">>), JStr(<<"1", ",", "2">>) }

RunObjs == ScanDicts(RunLeaves, MaxItems)

\* the orders in which a dict of n entries can hand them out
Orders(n) == { p \in [1..n -> 1..n] : \A a \in 1..n : \A b \in 1..n : a # b => p[a] # p[b] }

\* the dict o with its entries in the order p
Reordered(o, p) == JDict([k \in 1..Len(o.items) |-> o.items[p[k]]])

InitRuns ==
    /\ pc = "run_scan"
    /\ obj \in RunObjs
    /\ include = <<s_like>> /\ exclude = <<s_comment, s_reply, s_dislike>>
    /\ fuzzy_ret = None
    /\ url \in SocialUrls
    /\ visited = {} /\ results = <<>>
    /\ IdleResolve /\ IdleSection /\ IdleChart /\ IdleMain
    /\ IdleCritic /\ IdleCsv /\ IdleRetry

\* the end of a run: its result is recorded, and the next run starts
EndRun(blacklisted) ==
    /\ results' = Append(results, <<blacklisted, fuzzy_ret>>)
    /\ visited' = {}
    /\ pc' = IF Len(results) + 1 >= 2 THEN "runs_done" ELSE "run_scan"
    /\ UNCHANGED fuzzy_ret

\* fuzzy_find_int on the structure, its entries in the order of this run
RunScan ==
    /\ pc = "run_scan"
    /\ \E p \in Orders(Len(obj.items)) :
          fuzzy_ret' = fuzzy_find_int(Reordered(obj, p), include, exclude)
    /\ pc' = "run_blacklist"
    /\ UNCHANGED <<obj, include, exclude, url, visited, results, resolveVars,
                   sectionVars, chartVars, mainVars, criticVars, csvVars, retryVars>>

\* is_blacklisted_social: "if not url: return True", else one pass of the for
\* loop with the element the set hands out next
RunBlacklistStep ==
    /\ pc = "run_blacklist"
    /\ IF url = <<>> THEN EndRun(TRUE)
       ELSE \E bad \in SOCIAL_BLACKLIST_SUBSTR \ visited :
               IF BlacklistHit(bad, url) THEN EndRun(TRUE)
               ELSE /\ visited' = visited \cup {bad}
                    /\ UNCHANGED <<pc, results, fuzzy_ret>>
    /\ UNCHANGED <<obj, include, exclude, url, resolveVars, sectionVars,
                   chartVars, mainVars, criticVars, csvVars, retryVars>>

\* is_blacklisted_social: the loop is over, return False
RunBlacklistEnd ==
    /\ pc = "run_blacklist"
    /\ url # <<>> /\ visited = SOCIAL_BLACKLIST_SUBSTR
    /\ EndRun(FALSE)
    /\ UNCHANGED <<obj, include, exclude, url, resolveVars, sectionVars,
                   chartVars, mainVars, criticVars, csvVars, retryVars>>

NextRuns == RunScan \/ RunBlacklistStep \/ RunBlacklistEnd

SpecRuns == InitRuns /\ [][NextRuns]_vars

\* C17: two runs on the same documents give the same results, whatever the
\* order in which each run receives the entries of the dict scanned and the
\* elements of the blacklist set.
C17_Determinism ==
    pc = "runs_done" => results[1] = results[2]

\* two completed runs on a dict of two candidate counts and a URL that
\* matches two entries of the blacklist
C17_Witness ==
    /\ pc = "runs_done"
    /\ Len(obj.items) = 2
    /\ Len(Candidates(deep_iter_dict(obj), include, exclude)) = 2
    /\ Cardinality({ bad \in SOCIAL_BLACKLIST_SUBSTR : BlacklistHit(bad, url) }) = 2
    /\ results[1][1] /\ results[1][2] # None

----------------------------------------------------------------------------
(* The chart page *)

(* A chart page is the sequence of the anchors soup.select('a[href*="/songs/"]')
   returns.  An anchor is a record
     song    the id in its href, 0 when the href has no /songs/<digits>/ part;
             the song URL of an anchor is identified with this id
     label   the anchor's own text, "" for an image-only link
     line1   the first text line of its container, "" when it has none
     artist  the artist link of its container, "" when it has none          *)

\* song_title = a.get_text(strip=True) or (text_lines[0] if text_lines else "")
SongTitle(a) == IF a.label # "" THEN a.label ELSE a.line1

RECURSIVE ChartLoop(_, _, _)
\* the for loop of scrape_chart over the anchors left: the list items, given
\* the items collected so far
ChartLoop(doc, lim, items) ==
    IF doc = <<>> THEN items
    ELSE LET a == Head(doc)
         IN IF a.song = 0 THEN ChartLoop(Tail(doc), lim, items)
            ELSE LET items2 == Append(items,
                                 [rank |-> 0, song_title |-> SongTitle(a),
                                  artist_name |-> a.artist, song_url |-> a.song,
                                  artist_url |-> a.artist])
                 IN IF Len(items2) >= lim THEN items2
                    ELSE ChartLoop(Tail(doc), lim, items2)

\* scrape_chart without the final numbering of the items
scrape_chart_unranked(doc, lim) == ChartLoop(doc, lim, <<>>)

\* the list scrape_chart returns for a chart page that was loaded
scrape_chart(doc, lim) ==
    LET items == ChartLoop(doc, lim, <<>>)
    IN [i \in 1..Len(items) |-> [items[i] EXCEPT !.rank = i]]

Anchors ==
    { a \in [song : 0..MaxSongId, label : {"", "T"}, line1 : {"", "L"},
             artist : {"", "A"}] :
         a.label # "" => a.line1 = "L" }

ChartPages == UNION { [1..n -> Anchors] : n \in 0..MaxAnchors }

InitChart ==
    /\ pc = "chart_call"
    /\ chart_doc \in ChartPages
    /\ limit \in 0..MaxLimit
    /\ chart_items = <<>>
    /\ IdleFuzzy /\ IdleResolve /\ IdleSection /\ IdleMain /\ IdleCritic /\ IdleCsv /\ IdleRetry /\ IdleRuns

ScrapeChart ==
    /\ pc = "chart_call"
    /\ chart_items' = scrape_chart(chart_doc, limit)
    /\ pc' = "chart_done"
    /\ UNCHANGED <<chart_doc, limit, fuzzyVars, resolveVars, sectionVars, mainVars, criticVars, csvVars, retryVars, runVars>>

NextChart == ScrapeChart

SpecChart == InitChart /\ [][NextChart]_vars

\* C4: every song URL appears in the list scrape_chart returns at most once,
\* at the rank of its first occurrence on the page.
C4_IdentityDedup ==
    pc = "chart_done" =>
        \A i \in 1..Len(chart_items) : \A j \in 1..Len(chart_items) :
            chart_items[i].song_url = chart_items[j].song_url => i = j

\* C12: the list scrape_chart returns has at most limit entries, limit = 0
\* included, and its ranks are 1, 2, ..., n in the order of the page.
C12_TruncationAndRank ==
    pc = "chart_done" =>
        /\ Len(chart_items) <= limit
        /\ \A i \in 1..Len(chart_items) : chart_items[i].rank = i

----------------------------------------------------------------------------
(* main: the chart, then one row per chart item, then the CSV file *)

\* the chart pages of a run: every anchor has a song id and a label
MainAnchors ==
    [song : 1..MaxSongId, label : {"T"}, line1 : {"L"}, artist : {"", "A"}]

MainChartPages == UNION { [1..n -> MainAnchors] : n \in 0..MaxAnchors }

\* the rendered text of a song, when main has a Playwright page
MainPw(pg) ==
    IF pg THEN [pw_page |-> TRUE, pw_raises |-> FALSE,
                pw_likes |-> <<"9">>, pw_plays |-> <<>>]
    ELSE NoPage

\* the documents of a song in a run: the page could not be fetched, or it was
MainSongDocs(song_url, pg) ==
    { SongDoc(<<DigitChars[song_url + 1]>>, JNull, NoHtml, MainPw(pg)),
      SongDoc(<<DigitChars[song_url + 1]>>,
              JDict(<< <<s_plays, JInt(FALSE, <<"3">>)>> >>),
              [html_ok |-> TRUE, cookie_disabled |-> FALSE, nextdata |-> JNull,
               likes_nxt |-> <<>>, plays_nxt |-> <<>>],
              MainPw(pg)) }

MainArtistPw(pg) ==
    IF pg THEN [pw_page |-> TRUE, pw_raises |-> FALSE,
                pw_music |-> <<"8">>, pw_fans |-> <<>>, pw_following |-> <<>>]
    ELSE NoArtistPw

\* the documents of an artist in a run
MainArtistDocs(pg) ==
    { ArtistDoc(NoArtistPage, MainArtistPw(pg)),
      ArtistDoc([soup_ok |-> TRUE, cookie_disabled |-> FALSE,
                 music_nxt |-> <<>>, fans_nxt |-> <<"1","2">>,
                 following_nxt |-> <<"0">>],
                MainArtistPw(pg)) }

\* the declared fields of Row, in the order of the class
RowFields ==
    <<"snapshot_time", "rank", "song_title", "artist_name", "likes_count",
      "song_url", "artist_url", "cover_image_url",
      "artist_handle", "artist_identity", "artist_city", "artist_joined_date",
      "artist_music_count", "artist_fans_count", "artist_following_count",
      "artist_facebook_url", "artist_instagram_url", "artist_youtube_url",
      "artist_accredited_datetime",
      "play_count", "genre", "description", "lyrics", "release_date",
      "collaborators", "album_title", "album_url", "comments_count",
      "is_editor_recommended", "is_song_of_the_day", "critic_review_url",
      "song_accredited_datetime">>

RowFieldSet == { RowFields[i] : i \in 1..Len(RowFields) }

\* the fields main fills from the chart item, all of type str except rank
ChartFields == {"rank", "song_title", "artist_name", "song_url", "artist_url"}

\* the value of one keyword argument of Row(...): from the chart item, from
\* song_extra.get(f) or from artist_extra.get(f); .get gives None for a key
\* the dict does not hold
RowValue(f, item, song_extra, artist_extra) ==
    IF f = "snapshot_time" THEN "t"
    ELSE IF f \in ChartFields THEN item[f]
    ELSE IF f \in DOMAIN song_extra THEN song_extra[f]
    ELSE IF f \in DOMAIN artist_extra THEN artist_extra[f]
    ELSE None

\* a row that holds only the fields with a value
MakeRowSparse(item, song_extra, artist_extra) ==
    [f \in { g \in RowFieldSet :
                \/ g \in ChartFields \cup {"snapshot_time"}
                \/ RowValue(g, item, song_extra, artist_extra) # None }
        |-> RowValue(f, item, song_extra, artist_extra)]

\* Row(...) of main
MakeRow(item, song_extra, artist_extra) ==
    [f \in RowFieldSet |-> RowValue(f, item, song_extra, artist_extra)]

\* the fields whose value in a row is a str
StrFields == {"snapshot_time", "song_title", "artist_name", "artist_url"}

\* asdict(r) with every str value passed through clean_text: "" becomes None
CleanRow(r) ==
    [f \in DOMAIN r |-> IF f \in StrFields /\ r[f] = "" THEN None ELSE r[f]]

\* fieldnames: the keys of the first row, or the declared fields without rows
Fieldnames(rs) ==
    IF rs # <<>> THEN SelectSeq(RowFields, LAMBDA f : f \in DOMAIN rs[1])
    ELSE RowFields

Init ==
    /\ pc = "chart"
    /\ limit \in 0..MaxLimit
    /\ page \in BOOLEAN
    /\ chart_doc = <<>> /\ chart_items = <<>>
    /\ idx = 0 /\ rows = <<>> /\ written = FALSE
    /\ fieldnames = <<>> /\ csv_rows = <<>>
    /\ IdleFuzzy /\ IdleResolve /\ IdleSection /\ IdleCritic /\ IdleRetry /\ IdleRuns

\* chart_items = scrape_chart(session, limit=args.limit); RuntimeError when the
\* chart page cannot be loaded
MainScrapeChart ==
    /\ pc = "chart"
    /\ \E loaded \in BOOLEAN :
          IF loaded
          THEN \E doc \in MainChartPages :
                  /\ chart_doc' = doc
                  /\ chart_items' = scrape_chart(doc, limit)
                  /\ idx' = 1
                  /\ pc' = "loop"
          ELSE /\ pc' = "raised"
               /\ UNCHANGED <<chart_doc, chart_items, idx>>
    /\ UNCHANGED <<limit, page, rows, written, fuzzyVars, resolveVars, sectionVars, criticVars, csvVars, retryVars, runVars>>

\* one pass of the for loop of main over chart_items.  parse_s / parse_a: a
\* parser call on the fetched song / artist page raises (int() on a digit
\* string beyond the interpreter's conversion limit in to_int, RecursionError
\* in get_text); nothing in the loop catches it.
MainItem ==
    /\ pc = "loop" /\ idx <= Len(chart_items)
    /\ LET item == chart_items[idx]
       IN \E sd \in MainSongDocs(item.song_url, page), ad \in MainArtistDocs(page),
             parse_s \in BOOLEAN, parse_a \in BOOLEAN :
             IF \/ sd.html_ok /\ parse_s
                \/ item.artist_url # "" /\ ad.soup_ok /\ parse_a
             THEN /\ pc' = "raised"
                  /\ UNCHANGED <<idx, rows>>
             ELSE /\ rows' = Append(rows,
                       MakeRow(item, scrape_song_page(sd),
                               IF item.artist_url # "" THEN scrape_artist_profile(ad)
                               ELSE NoArtistOut))
                  /\ idx' = idx + 1
                  /\ pc' = pc
    /\ UNCHANGED <<chart_doc, limit, chart_items, page, written,
                   fuzzyVars, resolveVars, sectionVars, criticVars, csvVars, retryVars, runVars>>

\* after the loop: the CSV file is written
MainWrite ==
    /\ pc = "loop" /\ idx > Len(chart_items)
    /\ fieldnames' = Fieldnames(rows)
    /\ csv_rows' = [i \in 1..Len(rows) |-> CleanRow(rows[i])]
    /\ written' = TRUE
    /\ pc' = "done"
    /\ UNCHANGED <<chart_doc, limit, chart_items, page, idx, rows,
                   fuzzyVars, resolveVars, sectionVars, criticVars, retryVars, runVars>>

Next == MainScrapeChart \/ MainItem \/ MainWrite

Spec == Init /\ [][Next]_vars

\* C5: a chart item whose processing fails (fetch error, or an exception
\* raised while its documents are parsed) does not abort the batch: when main
\* has ended after the chart was loaded, every item was passed and the output
\* was written.
C5_BatchIsolation ==
    (pc \in {"done", "raised"} /\ idx >= 1) =>
        idx = Len(chart_items) + 1 /\ written

\* C13: the rows of main are append-only and follow the chart: the i-th row
\* carries rank i and the song URL of the i-th chart item at every moment, no
\* step changes or removes a row already appended, and a completed run has one
\* row per chart item.
C13_EndToEndOrder ==
    /\ [](/\ Len(rows) <= Len(chart_items)
          /\ \A i \in 1..Len(rows) :
                /\ rows[i].rank = i
                /\ rows[i].song_url = chart_items[i].song_url
          /\ pc = "done" => Len(rows) = Len(chart_items))
    /\ [][rows' = rows \/ \E r \in {rows'[Len(rows')]} : rows' = Append(rows, r)]_vars

\* a completed run of several rows for different songs
C13_Witness ==
    /\ pc = "done" /\ written
    /\ Len(rows) >= 2
    /\ rows[1].song_url # rows[2].song_url

\* C16: every row of main, and every dict written to the CSV file, has exactly
\* the declared fields of Row as its keys, whatever was resolved; the header
\* written lists every declared field, also when there is no row.
C16_FixedSchema ==
    /\ \A i \in 1..Len(rows) : DOMAIN rows[i] = RowFieldSet
    /\ written =>
          /\ fieldnames = RowFields
          /\ Len(csv_rows) = Len(rows)
          /\ \A i \in 1..Len(csv_rows) : DOMAIN csv_rows[i] = RowFieldSet

\* a written file with a row of a song whose page gave no counts and whose
\* chart entry has no artist URL
C16_Witness ==
    /\ written /\ Len(csv_rows) >= 1
    /\ \E i \in 1..Len(csv_rows) :
          /\ rows[i]["artist_url"] = ""
          /\ csv_rows[i]["likes_count"] = None
          /\ csv_rows[i]["play_count"] = None
          /\ csv_rows[i]["artist_fans_count"] = None

====
